---- MODULE Spec2Model ----
(***************************************************************************)
(* Caching and freshness layer of sportspuff-v6 (src/app.py): the hot      *)
(* response cache (_api_cache, get_cached_response, set_cached_response)   *)
(* and the two proxy handlers proxy_schedule and proxy_scores that sit in  *)
(* front of the upstream schedule/score provider.                          *)
(***************************************************************************)
EXTENDS Integers, Sequences, FiniteSets, TLC

(***************************************************************************)
(* Bounds of the model                                                     *)
(***************************************************************************)
MaxReq == 3
MaxTicks == 2
MaxOps == 2
MaxNewKeys == 2
MaxWarmTicks == 1
MaxGames == 2
MaxStoreOps == 2

MaxPgOps == 3

MaxApiGames == 1

(***************************************************************************)
(* Program constants                                                       *)
(***************************************************************************)
TTLSchedule == 300
TTLScores == 30
TTLDefault == 60
N == 100
DayLen == 86400

(***************************************************************************)
(* Time.  now is datetime.now(timezone.utc) in seconds; strftime is        *)
(* .strftime('%Y-%m-%d') of it, the UTC calendar date as a string.         *)
(***************************************************************************)
DateStr == <<"2025-03-01", "2025-03-02", "2025-03-03">>

strftime(t) == DateStr[t \div DayLen]

\* The process is observed from 23:59:50 UTC of the first day.
StartNow == 2 * DayLen - 10

\* Lengths of time that pass between two observations of the clock.
Deltas == {20, 300}

(***************************************************************************)
(* Values.  A JSON payload is a dict or a list; a dict may be empty, may   *)
(* carry a 'date' field and may carry an 'error' field ("" = no field).    *)
(***************************************************************************)
None == [t |-> "None", empty |-> TRUE, date |-> "", error |-> ""]

Dict(d) == [t |-> "dict", empty |-> FALSE, date |-> d, error |-> ""]

List == [t |-> "list", empty |-> FALSE, date |-> "", error |-> ""]

ErrorDict(msg) == [t |-> "dict", empty |-> FALSE, date |-> "", error |-> msg]

\* A body on which response.json() raises ValueError.
Unparsable == [t |-> "invalid", empty |-> FALSE, date |-> "", error |-> ""]

\* Python truthiness of a cached value: None, {} and [] are falsy.
Truthy(v) == v.t # "None" /\ ~v.empty

\* A comparison with 'today' that forgets str.lower().
lower_forgotten(s) == s

\* str.lower() on the request's date segment.
lower(s) == IF s \in {"today", "Today", "TODAY"} THEN "today" ELSE s

(***************************************************************************)
(* The hot response cache: a Python dict, kept here in insertion order as  *)
(* a sequence of (key, (data, timestamp)) items.                           *)
(***************************************************************************)
HasKey(c, k) == \E i \in 1..Len(c) : c[i].key = k

IndexOf(c, k) == CHOOSE i \in 1..Len(c) : c[i].key = k

RemoveAt(c, i) == [j \in 1..(Len(c) - 1) |-> IF j < i THEN c[j] ELSE c[j + 1]]

\* The items of the dict, as a set.
Items(c) == {c[i] : i \in 1..Len(c)}

cache_ttl(cache_type) ==
    IF cache_type = "schedule" THEN TTLSchedule
    ELSE IF cache_type = "scores" THEN TTLScores
    ELSE TTLDefault

\* get_cached_response with the age test written <= ttl.
get_cached_response_le(c, cache_key, cache_type, t) ==
    IF HasKey(c, cache_key)
       /\ t - c[IndexOf(c, cache_key)].timestamp <= cache_ttl(cache_type)
    THEN c[IndexOf(c, cache_key)].data
    ELSE None

get_cached_response(c, cache_key, cache_type, t) ==
    IF HasKey(c, cache_key)
       /\ t - c[IndexOf(c, cache_key)].timestamp < cache_ttl(cache_type)
    THEN c[IndexOf(c, cache_key)].data
    ELSE None

\* oldest_key taken as the first key of the dict (first in, first out).
oldest_key_fifo(c) == c[1].key

\* min(_api_cache.keys(), key=lambda k: _api_cache[k][1]): the first key, in
\* dict order, among those of least timestamp.
oldest_key(c) ==
    LET i == CHOOSE i \in 1..Len(c) :
                 /\ \A j \in 1..Len(c) : c[i].timestamp <= c[j].timestamp
                 /\ \A j \in 1..(i - 1) : c[j].timestamp # c[i].timestamp
    IN c[i].key

\* set_cached_response without its clean-up of old entries.
set_cached_response_keep(c, cache_key, data, t) ==
    LET item == [key |-> cache_key, data |-> data, timestamp |-> t]
    IN IF HasKey(c, cache_key)
       THEN [c EXCEPT ![IndexOf(c, cache_key)] = item]
       ELSE Append(c, item)

set_cached_response(c, cache_key, data, t) ==
    LET item == [key |-> cache_key, data |-> data, timestamp |-> t]
        c1 == IF HasKey(c, cache_key)
              THEN [c EXCEPT ![IndexOf(c, cache_key)] = item]
              ELSE Append(c, item)
    IN IF Len(c1) > N THEN RemoveAt(c1, IndexOf(c1, oldest_key(c1))) ELSE c1

(***************************************************************************)
(* Key normaliser: the head of proxy_schedule and proxy_scores.            *)
(***************************************************************************)
\* cache_key_of with the date taken once, when the process started.
cache_key_of_startup(kind, league, date, tz, t) ==
    IF lower(date) = "today"
    THEN kind \o ":" \o league \o ":" \o strftime(StartNow) \o ":" \o tz
    ELSE kind \o ":" \o league \o ":" \o date \o ":" \o tz

cache_key_of(kind, league, date, tz, t) ==
    IF lower(date) = "today"
    THEN kind \o ":" \o league \o ":" \o strftime(t) \o ":" \o tz
    ELSE kind \o ":" \o league \o ":" \o date \o ":" \o tz

api_date_of(date) == IF lower(date) = "today" THEN "today" ELSE date

url_of(api_base, kind, league, api_date, tz) ==
    api_base \o "/api/v1/" \o kind \o "/" \o league \o "/" \o api_date
             \o "?tz=" \o tz

(***************************************************************************)
(* What one requests.get(url, timeout=60) can produce: an exception, or a  *)
(* response with a status code and a body.                                 *)
(***************************************************************************)
StatusCodes == {200, 204, 404, 500, 503}

Exceptions == {"Timeout", "ConnectionError"}

\* Bodies of a 200 that carry no 'error': an object dated the first or the
\* second day (the provider's own date, whatever date was asked for), or a
\* JSON array.
SuccessBodies == {Dict(DateStr[1]), Dict(DateStr[2]), List}

UpstreamResults ==
    {[exc |-> e, status_code |-> 0, body |-> None] : e \in Exceptions}
    \cup {[exc |-> "", status_code |-> 200, body |-> b] :
            b \in SuccessBodies \cup {ErrorDict("upstream error"), Unparsable}}
    \cup {[exc |-> "", status_code |-> c, body |-> b] :
            c \in StatusCodes \ {200},
            b \in {ErrorDict("upstream error"), Unparsable}}

NoResult == [exc |-> "", status_code |-> 0, body |-> None]

\* failure_of without the "'error' in data" check of a parsed body.
failure_of_error_field_unchecked(r) ==
    IF r.exc = "Timeout" THEN "Timeout"
    ELSE IF r.exc # "" THEN "ConnectionError"
    ELSE IF r.status_code # 200 THEN "NonSuccessStatus"
    ELSE IF r.body.t = "invalid" THEN "MalformedBody"
    ELSE ""

\* The five failure kinds of one attempt; "" when the attempt succeeded.
failure_of(r) ==
    IF r.exc = "Timeout" THEN "Timeout"
    ELSE IF r.exc # "" THEN "ConnectionError"
    ELSE IF r.status_code # 200 THEN "NonSuccessStatus"
    ELSE IF r.body.t = "invalid" THEN "MalformedBody"
    ELSE IF r.body.t = "dict" /\ r.body.error # "" THEN "UpstreamReportedError"
    ELSE ""

\* error_msg of the status_code != 200 branch.
error_msg(r) ==
    IF r.body.t = "dict" /\ r.body.error # ""
    THEN r.body.error
    ELSE IF r.body.t = "dict"
    THEN "API returned status " \o ToString(r.status_code)
    ELSE "API returned status " \o ToString(r.status_code) \o ": text"

\* failure_response with response.json() tried before the status is looked at.
failure_response_parse_first(r) ==
    IF r.exc = "Timeout"
    THEN [status |-> 500, src |-> "error",
          body |-> ErrorDict("API request timed out after 60 seconds")]
    ELSE IF r.exc # ""
    THEN [status |-> 500, src |-> "error",
          body |-> ErrorDict("API request failed: " \o r.exc)]
    ELSE IF r.body.t = "invalid"
    THEN [status |-> 500, src |-> "error",
          body |-> ErrorDict("Invalid JSON response from API")]
    ELSE IF r.status_code # 200
    THEN [status |-> IF r.status_code < 500 THEN r.status_code ELSE 500,
          src |-> "error", body |-> ErrorDict(error_msg(r))]
    ELSE [status |-> 500, src |-> "error", body |-> r.body]

\* The (body, status) pair a handler returns for a failed attempt.
failure_response(r) ==
    IF r.exc = "Timeout"
    THEN [status |-> 500, src |-> "error",
          body |-> ErrorDict("API request timed out after 60 seconds")]
    ELSE IF r.exc # ""
    THEN [status |-> 500, src |-> "error",
          body |-> ErrorDict("API request failed: " \o r.exc)]
    ELSE IF r.status_code # 200
    THEN [status |-> IF r.status_code < 500 THEN r.status_code ELSE 500,
          src |-> "error", body |-> ErrorDict(error_msg(r))]
    ELSE IF r.body.t = "invalid"
    THEN [status |-> 500, src |-> "error",
          body |-> ErrorDict("Invalid JSON response from API")]
    ELSE [status |-> 500, src |-> "error", body |-> r.body]

\* fallback_usable without the comparison of dates.
fallback_usable_any_date(cached_response, t) == Truthy(cached_response)

\* The guard of every "Try cached response as fallback" block of proxy_scores.
fallback_usable(cached_response, t) ==
    /\ Truthy(cached_response)
    /\ cached_response.date = strftime(t)

\* cache_usable without the comparison of dates.
cache_usable_any_date(cached_response, t) == Truthy(cached_response)

\* "if cached_response: ... if cached_date == today_date" of both handlers;
\* reached only with a dict, .get having raised on anything else.
cache_usable(cached_response, t) ==
    /\ Truthy(cached_response)
    /\ cached_response.date = strftime(t)

\* requests.get repeated once when the first GET has been sent.
requests_get_twice(calls, url) == Append(Append(calls, url), url)

\* requests.get(url, ...): one GET on the wire.
requests_get(calls, url) == Append(calls, url)

\* A success path that answers with the cached value when there is one.
success_response_cached_first(r, cached_response) ==
    [status |-> 200, src |-> "upstream",
     body |-> IF Truthy(cached_response) THEN cached_response ELSE r.body]

\* "return jsonify(data)" after set_cached_response.
success_response(r, cached_response) ==
    [status |-> 200, src |-> "upstream", body |-> r.body]

VARIABLES now, api_cache, nticks, API_BASE_URL, pc, req, resp, outcome,
          calls, nreq, call

\* The cache warmer (src/warm_cache.py), a process of its own: the wall
\* clock it reads, its position in warm_cache() and the locals of that
\* function.
VARIABLES wall_clock, wticks, wpc, current_hour, current_minute, league_i,
          tz_i, half, success_count, error_count, requests_sent, returned

warm_vars == <<wall_clock, wticks, wpc, current_hour, current_minute,
               league_i, tz_i, half, success_count, error_count,
               requests_sent, returned>>

\* The persistent store (src/nba-samples/cache_manager.py): the rows of the
\* games table, the time of the store's clock, and the latest call made.
VARIABLES games, store_time, store_call

\* The store's other tables, standings and api_usage with the sequence of
\* its AUTOINCREMENT id, the offset of the host's local time from UTC, in
\* minutes, and for every (sport, data type) the time of the latest write
\* that returned, -1 when there was none.
VARIABLES standings, api_usage, usage_seq, utc_offset, last_write

store_vars == <<games, store_time, store_call, standings, api_usage,
                usage_seq, utc_offset, last_write>>

\* Request threads of the server that are inside get_cached_response or
\* set_cached_response at the same time (app.run serves each request in a
\* thread of its own; the cache has no lock), and the (key, data, timestamp)
\* triples that the puts have stored so far.
VARIABLES threads, written

thread_vars == <<threads, written>>

\* The season-type classifiers (detect_season_type of the schedule collector
\* and of the full-schedule importer): the arguments of the latest call and
\* what it returned.
VARIABLES date_obj, game_data, season_type

class_vars == <<date_obj, game_data, season_type>>

\* The nba_games table of the PostgreSQL database, the time of its clock and
\* the latest call of the collector or of the scores updater.
VARIABLES nba_games, pg_time, pg_call

pg_vars == <<nba_games, pg_time, pg_call>>

\* What the handlers and the cache of src/app.py never touch.
other_vars == <<warm_vars, store_vars, thread_vars, class_vars, pg_vars>>

vars == <<now, api_cache, nticks, API_BASE_URL, pc, req, resp, outcome,
          calls, nreq, call, other_vars>>

\* The handlers' variables, untouched by direct use of the cache.
handler_vars == <<API_BASE_URL, pc, req, resp, outcome, calls, nreq>>

Leagues == {"nba"}

Timezones == {"pst"}

\* The <date> path segment of a request: the keyword, or a literal date.
RequestDates == {"today", "TODAY", DateStr[2]}

NoReq == [kind |-> "", league |-> "", date |-> "", tz |-> "", cache_key |-> "",
          api_date |-> "", cached_response |-> None]

NoResp == [status |-> 0, src |-> "", body |-> None]

\* The latest direct call of the cache's two functions and what it returned.
NoCall == [op |-> "", key |-> "", type |-> "", data |-> None, ret |-> None]

\* The warmer before it is invoked.
WarmIdle ==
    /\ wall_clock = [hour |-> 0, minute |-> 0]
    /\ wticks = 0
    /\ wpc = "not started"
    /\ current_hour = -1
    /\ current_minute = -1
    /\ league_i = 1
    /\ tz_i = 1
    /\ half = 1
    /\ success_count = 0
    /\ error_count = 0
    /\ requests_sent = <<>>
    /\ returned = "None"

NoStoreCall == [op |-> "", sport |-> "", game_date |-> "", games |-> <<>>,
                days_to_keep |-> 0, removed |-> {}, raised |-> "",
                data_type |-> "", max_age_minutes |-> 0, ret |-> FALSE]

DataTypes == {"games", "standings"}

\* The store after _init_database on a new file: no rows.
StoreIdle ==
    /\ games = {}
    /\ store_time = 0
    /\ store_call = NoStoreCall
    /\ standings = {}
    /\ api_usage = {}
    /\ usage_seq = 0
    /\ utc_offset = 0
    /\ last_write = [k \in {"nba", "mlb"} \X DataTypes |-> -1]

Threads == {1, 2}

NoPair == [data |-> None, timestamp |-> -1]

\* A thread that has not entered the cache's functions.
NoThread == [pc |-> "ready", op |-> "", key |-> "", type |-> "", data |-> None,
             timestamp |-> -1, seen |-> NoPair, pair |-> NoPair,
             iter_keys |-> <<>>, oldest_key |-> "", ret |-> None,
             raised |-> ""]

\* No request thread is inside the cache's functions.
ThreadsIdle ==
    /\ threads = [t \in Threads |-> NoThread]
    /\ written = {}

NoGameData == [given |-> FALSE, gameType |-> "", isNBAcup |-> FALSE,
               isAllStar |-> FALSE, gameLabel |-> "", gameSubtype |-> ""]

NoSeasonType == [by |-> "", season_type |-> "", description |-> ""]

\* No classifier has been called.
ClassIdle ==
    /\ date_obj = [month |-> 1, day |-> 1]
    /\ game_data = NoGameData
    /\ season_type = NoSeasonType

NoPgCall == [op |-> "", date |-> "", ret |-> 0]

\* The nba_games table after it is created: no rows.
PgIdle ==
    /\ nba_games = {}
    /\ pg_time = 0
    /\ pg_call = NoPgCall

\* Everything outside src/app.py at rest.
OtherIdle == WarmIdle /\ StoreIdle /\ ThreadsIdle /\ ClassIdle /\ PgIdle

\* The process after import: an empty cache, and the base URL that the
\* environment gives (SPORTSPUFF_API_BASE_URL set empty leaves none).  One
\* handler runs at a time; the clock never goes back.
Init ==
    /\ now = StartNow
    /\ api_cache = <<>>
    /\ nticks = 0
    /\ API_BASE_URL \in {"", "https://api.sportspuff.org"}
    /\ pc = "idle"
    /\ req = NoReq
    /\ resp = NoResp
    /\ outcome = NoResult
    /\ calls = <<>>
    /\ nreq = 0
    /\ call = NoCall
    /\ OtherIdle

\* Time passes, between requests or while a GET is in flight.
Tick ==
    /\ pc \in {"idle", "fetching"}
    /\ nticks < MaxTicks
    /\ \E d \in Deltas : now' = now + d
    /\ nticks' = nticks + 1
    /\ call' = NoCall
    /\ UNCHANGED <<api_cache, handler_vars, other_vars>>

\* A handler from its entry to the return of a cached response, or to the
\* moment its GET is on the wire.
handler_lookup(kind, league, date, tz) ==
    LET cache_key == cache_key_of(kind, league, date, tz, now)
        api_date == api_date_of(date)
        cached_response == get_cached_response(api_cache, cache_key, kind, now)
    IN /\ pc = "idle"
       /\ nreq < MaxReq
       /\ nreq' = nreq + 1
       /\ req' = [kind |-> kind, league |-> league, date |-> date, tz |-> tz,
                  cache_key |-> cache_key, api_date |-> api_date,
                  cached_response |-> cached_response]
       /\ outcome' = NoResult
       /\ IF Truthy(cached_response) /\ cached_response.t # "dict"
          THEN \* cached_response.get raises AttributeError: except Exception
               /\ resp' = [status |-> 500, src |-> "error",
                           body |-> ErrorDict("object has no attribute 'get'")]
               /\ pc' = "done"
               /\ calls' = <<>>
          ELSE IF cache_usable(cached_response, now)
          THEN /\ resp' = [status |-> 200, src |-> "cache",
                           body |-> cached_response]
               /\ pc' = "done"
               /\ calls' = <<>>
          ELSE IF API_BASE_URL = ""
          THEN /\ resp' = [status |-> 500, src |-> "error",
                           body |-> ErrorDict("API base URL not configured")]
               /\ pc' = "done"
               /\ calls' = <<>>
          ELSE /\ resp' = NoResp
               /\ pc' = "fetching"
               /\ calls' = requests_get(<<>>, url_of(API_BASE_URL, kind, league,
                                                     api_date, tz))
       /\ UNCHANGED <<now, api_cache, nticks, API_BASE_URL, call, other_vars>>

\* The rest of a handler, once requests.get has returned or raised.
handler_result(kind, with_fallback) ==
    /\ pc = "fetching"
    /\ req.kind = kind
    /\ \E r \in UpstreamResults :
         /\ outcome' = r
         /\ IF failure_of(r) # ""
            THEN /\ resp' = IF with_fallback
                               /\ fallback_usable(req.cached_response, now)
                            THEN [status |-> 200, src |-> "fallback",
                                  body |-> req.cached_response]
                            ELSE failure_response(r)
                 /\ UNCHANGED api_cache
            ELSE /\ api_cache' = set_cached_response(api_cache, req.cache_key,
                                                     r.body, now)
                 /\ resp' = success_response(r, req.cached_response)
    /\ pc' = "done"
    /\ UNCHANGED <<now, nticks, API_BASE_URL, req, calls, nreq, call,
                   other_vars>>

proxy_schedule ==
    \E league \in Leagues, date \in RequestDates, tz \in Timezones :
        handler_lookup("schedule", league, date, tz)

proxy_schedule_result == handler_result("schedule", FALSE)

proxy_scores ==
    \E league \in Leagues, date \in RequestDates, tz \in Timezones :
        handler_lookup("scores", league, date, tz)

proxy_scores_result == handler_result("scores", TRUE)

\* The response has been sent; the handler's frame is gone.
Return ==
    /\ pc = "done"
    /\ pc' = "idle"
    /\ req' = NoReq
    /\ resp' = NoResp
    /\ outcome' = NoResult
    /\ calls' = <<>>
    /\ UNCHANGED <<now, api_cache, nticks, API_BASE_URL, nreq, call,
                   other_vars>>

Next ==
    \/ Tick
    \/ proxy_schedule
    \/ proxy_schedule_result
    \/ proxy_scores
    \/ proxy_scores_result
    \/ Return

Spec == Init /\ [][Next]_vars

(***************************************************************************)
(* The cache on its own: get_cached_response and set_cached_response       *)
(* called directly, around the capacity of N entries.                      *)
(***************************************************************************)
\* The key of a schedule request for the i-th literal date of a season.
FillKey(i) == cache_key_of("schedule", "nba", ToString(20250000 + i), "pst", 0)

\* A cache of n entries put one per second up to one second ago, in the
\* order "asc" (oldest first), or re-put since in the order "desc" (oldest
\* last), or all put within one reading of the clock ("same").
Filled(n, order) ==
    [i \in 1..n |->
        [key |-> FillKey(i), data |-> Dict(DateStr[1]),
         timestamp |-> IF order = "asc" THEN StartNow - 1 - (n - i)
                       ELSE IF order = "desc" THEN StartNow - 1 - i
                       ELSE StartNow - 1]]

\* Keys the calls use: old ones, and ones the cache has never held.
CallKeys == {FillKey(i) : i \in {1} \cup ((N + 1)..(N + MaxNewKeys))}

CallData == {Dict(DateStr[1]), Dict(DateStr[2])}

\* A cache that holds nothing, or one that earlier puts have filled up to
\* its capacity or to one entry below it.
InitCache ==
    /\ now = StartNow
    /\ api_cache \in {<<>>, Filled(N - 1, "asc")}
                     \cup {Filled(N, o) : o \in {"asc", "desc", "same"}}
    /\ nticks = 0
    /\ API_BASE_URL = "https://api.sportspuff.org"
    /\ pc = "idle"
    /\ req = NoReq
    /\ resp = NoResp
    /\ outcome = NoResult
    /\ calls = <<>>
    /\ nreq = 0
    /\ call = NoCall
    /\ OtherIdle

CachePut ==
    /\ nreq < MaxOps
    /\ nreq' = nreq + 1
    /\ \E k \in CallKeys, v \in CallData :
         /\ api_cache' = set_cached_response(api_cache, k, v, now)
         /\ call' = [op |-> "put", key |-> k, type |-> "", data |-> v,
                     ret |-> None]
    /\ UNCHANGED <<now, nticks, API_BASE_URL, pc, req, resp, outcome, calls,
                   other_vars>>

CacheGet ==
    /\ nreq < MaxOps
    /\ nreq' = nreq + 1
    /\ \E k \in CallKeys, ty \in {"schedule", "scores"} :
         call' = [op |-> "get", key |-> k, type |-> ty, data |-> None,
                  ret |-> get_cached_response(api_cache, k, ty, now)]
    /\ UNCHANGED <<now, api_cache, nticks, API_BASE_URL, pc, req, resp,
                   outcome, calls, other_vars>>

NextCache ==
    \/ Tick
    \/ CachePut
    \/ CacheGet

SpecCache == InitCache /\ [][NextCache]_vars

(***************************************************************************)
(* The cache warmer: warm_cache() of src/warm_cache.py, run as a process   *)
(* of its own once a minute.  It reads the wall clock twice (hour, then    *)
(* minute), and then sends its requests one after the other.               *)
(***************************************************************************)
LEAGUES == <<"nba", "nhl", "nfl", "mlb", "mls", "wnba">>

TIMEZONES == <<"pst", "est", "cst", "mst">>

BASE_URL == "http://localhost:34181"

\* Times of day at which the warmer is started.
ClockHours == {1, 2, 17, 18}

ClockMinutes == {0, 4, 5, 59}

\* The wall clock one minute later.
next_minute(c) ==
    IF c.minute < 59
    THEN [hour |-> c.hour, minute |-> c.minute + 1]
    ELSE [hour |-> (c.hour + 1) % 24, minute |-> 0]

\* Game hours that end at midnight.
is_game_hours_until_midnight(hour) == hour >= 18

\* is_game_hours = (current_hour >= 18) or (current_hour < 2)
is_game_hours(hour) == (hour >= 18) \/ (hour < 2)

\* "if current_minute % 5 != 0: return True", reached in off hours only.
skip_run(minute) == minute % 5 # 0

\* A warmer that asks for the scores first whatever the hour.
kind_of_scores_first(game_hours, h) ==
    IF h = 1 THEN "scores" ELSE "schedule"

\* The endpoint of the first and of the second request of a pair.
kind_of(game_hours, h) ==
    IF game_hours
    THEN (IF h = 1 THEN "scores" ELSE "schedule")
    ELSE (IF h = 1 THEN "schedule" ELSE "scores")

warm_url(kind, league, tz) ==
    BASE_URL \o "/api/proxy/" \o kind \o "/" \o league \o "/today?tz=" \o tz

\* What one requests.get(url, timeout=30) of the warmer can produce.
WarmResults ==
    {[exc |-> "", status_code |-> 200], [exc |-> "", status_code |-> 500],
     [exc |-> "Timeout", status_code |-> 0]}

\* "if response.status_code == 200: success_count += 1"
counts_success(r) == r.exc = "" /\ r.status_code = 200

\* An error counted only when a response came back.
counts_error_response_only(r) == r.exc = "" /\ r.status_code # 200

\* "else: error_count += 1" and "except Exception: error_count += 1"
counts_error(r) == r.exc # "" \/ r.status_code # 200

\* The handlers and the cache of src/app.py at rest.
AppIdle ==
    /\ now = StartNow
    /\ api_cache = <<>>
    /\ nticks = 0
    /\ API_BASE_URL = "https://api.sportspuff.org"
    /\ pc = "idle"
    /\ req = NoReq
    /\ resp = NoResp
    /\ outcome = NoResult
    /\ calls = <<>>
    /\ nreq = 0
    /\ call = NoCall

app_vars == <<now, api_cache, nticks, API_BASE_URL, pc, req, resp, outcome,
              calls, nreq, call>>

\* The warmer is started at some time of day.
InitWarm ==
    /\ AppIdle
    /\ StoreIdle
    /\ ThreadsIdle
    /\ ClassIdle
    /\ PgIdle
    /\ wall_clock \in [hour : ClockHours, minute : ClockMinutes]
    /\ wticks = 0
    /\ wpc = "not started"
    /\ current_hour = -1
    /\ current_minute = -1
    /\ league_i = 1
    /\ tz_i = 1
    /\ half = 1
    /\ success_count = 0
    /\ error_count = 0
    /\ requests_sent = <<>>
    /\ returned = "None"

\* A minute passes before, or between, the warmer's two readings of the clock.
WarmTick ==
    /\ wpc \in {"not started", "hour read"}
    /\ wticks < MaxWarmTicks
    /\ wticks' = wticks + 1
    /\ wall_clock' = next_minute(wall_clock)
    /\ UNCHANGED <<app_vars, store_vars, thread_vars, class_vars, pg_vars,
                   wpc, current_hour,
                   current_minute,
                   league_i, tz_i, half, success_count, error_count,
                   requests_sent, returned>>

\* current_hour = datetime.now(timezone.utc).hour, and the choice of mode.
warm_cache_hour ==
    /\ wpc = "not started"
    /\ current_hour' = wall_clock.hour
    /\ wpc' = IF is_game_hours(wall_clock.hour) THEN "sweep" ELSE "hour read"
    /\ UNCHANGED <<app_vars, store_vars, thread_vars, class_vars, pg_vars,
                   wall_clock, wticks,
                   current_minute,
                   league_i, tz_i, half, success_count, error_count,
                   requests_sent, returned>>

\* current_minute = datetime.now(timezone.utc).minute, in off hours, and
\* the skipped run.
warm_cache_minute ==
    /\ wpc = "hour read"
    /\ current_minute' = wall_clock.minute
    /\ IF skip_run(wall_clock.minute)
       THEN wpc' = "returned" /\ returned' = "True"
       ELSE wpc' = "sweep" /\ UNCHANGED returned
    /\ UNCHANGED <<app_vars, store_vars, thread_vars, class_vars, pg_vars,
                   wall_clock, wticks,
                   current_hour, league_i, tz_i, half, success_count, error_count,
                   requests_sent>>

\* One try/except block of the two nested loops: one GET, counted; after
\* the last one, "return error_count == 0".
warm_cache_get ==
    LET league == LEAGUES[league_i]
        tz == TIMEZONES[tz_i]
        kind == kind_of(is_game_hours(current_hour), half)
        last == league_i = Len(LEAGUES) /\ tz_i = Len(TIMEZONES) /\ half = 2
    IN /\ wpc = "sweep"
       /\ requests_sent' = Append(requests_sent,
                                  [kind |-> kind, league |-> league, tz |-> tz,
                                   url |-> warm_url(kind, league, tz)])
       /\ \E r \in WarmResults :
            /\ success_count' = success_count + (IF counts_success(r) THEN 1 ELSE 0)
            /\ error_count' = error_count + (IF counts_error(r) THEN 1 ELSE 0)
       /\ IF last
          THEN /\ wpc' = "returned"
               /\ returned' = IF error_count' = 0 THEN "True" ELSE "False"
               /\ UNCHANGED <<league_i, tz_i, half>>
          ELSE /\ half' = 3 - half
               /\ tz_i' = IF half = 1 THEN tz_i
                          ELSE IF tz_i = Len(TIMEZONES) THEN 1 ELSE tz_i + 1
               /\ league_i' = IF half = 2 /\ tz_i = Len(TIMEZONES)
                              THEN league_i + 1 ELSE league_i
               /\ UNCHANGED <<wpc, returned>>
       /\ UNCHANGED <<app_vars, store_vars, thread_vars, class_vars, pg_vars,
                   wall_clock, wticks,
                       current_hour, current_minute>>

NextWarm ==
    \/ WarmTick
    \/ warm_cache_hour
    \/ warm_cache_minute
    \/ warm_cache_get

SpecWarm == InitWarm /\ [][NextWarm]_vars

(***************************************************************************)
(* The persistent store: the games table of CacheManager                   *)
(* (src/nba-samples/cache_manager.py), whose primary key is the column id  *)
(* alone, written by cache_games and emptied by purge_old_data and         *)
(* cleanup_old_data.                                                       *)
(***************************************************************************)
Sports == {"nba", "mlb"}

\* The dates games are played on, and the date of the store's clock.
GameDates == {DateStr[1], DateStr[2]}

StoreToday == 3

RetentionDays == {0, 1, 2}

\* A game as the provider gives it; id "" is a game without gameId / id.
Game(id, status, game_time) ==
    [id |-> id, home_team |-> "Boston Celtics", away_team |-> "New York Knicks",
     status |-> status, game_time |-> game_time]

GameInputs ==
    {Game("g1", "scheduled", "19:00"), Game("g1", "Final", "19:00"),
     Game("", "scheduled", "13:00"), Game("", "scheduled", "19:00")}

\* The lists of games a caller passes.
GameLists == UNION {[1..n -> GameInputs] : n \in 0..MaxGames}

\* game_id: the provider's id, or one made of sport, date and the two teams.
game_id(sport, game_date, game) ==
    IF game.id # "" THEN game.id
    ELSE sport \o "_" \o game_date \o "_" \o game.home_team \o "_" \o game.away_team

\* The row one INSERT OR REPLACE writes; created_at takes its default.
row_of(sport, game_date, game, t) ==
    [id |-> game_id(sport, game_date, game), sport |-> sport,
     game_date |-> game_date, home_team |-> game.home_team,
     away_team |-> game.away_team, status |-> game.status,
     game_time |-> game.game_time, created_at |-> t, updated_at |-> t]

\* INSERT OR REPLACE on the primary key id.
insert_or_replace(tbl, row) == {r \in tbl : r.id # row.id} \cup {row}

RECURSIVE insert_all(_, _, _, _, _, _)
\* "for game in games: INSERT OR REPLACE", from the i-th game on.
insert_all(tbl, sport, game_date, gs, i, t) ==
    IF i > Len(gs) THEN tbl
    ELSE insert_all(insert_or_replace(tbl, row_of(sport, game_date, gs[i], t)),
                    sport, game_date, gs, i + 1, t)

\* A DELETE that forgets the date: every row of the sport goes.
delete_sport_date_whole_sport(tbl, sport, game_date) ==
    {r \in tbl : r.sport # sport}

\* DELETE FROM games WHERE sport = ? AND game_date = ?
delete_sport_date(tbl, sport, game_date) ==
    {r \in tbl : ~(r.sport = sport /\ r.game_date = game_date)}

\* The table after cache_games(sport, games, game_date) at time t.
cache_games_table(tbl, sport, gs, game_date, t) ==
    insert_all(delete_sport_date(tbl, sport, game_date), sport, game_date, gs, 1, t)

\* The ids a call has taken out of the table.
removed_ids(before, after) == {r.id : r \in before} \ {r.id : r \in after}

\* The place of a date in the calendar; dates compare as their strings do.
date_index(d) == CHOOSE i \in 1..Len(DateStr) : DateStr[i] = d

\* cutoff_date = (datetime.now() - timedelta(days=days_to_keep)) as a date.
cutoff_date(days_to_keep) == DateStr[StoreToday - days_to_keep]

\* DELETE FROM games WHERE game_date < ?
delete_before(tbl, cutoff) ==
    {r \in tbl : ~(date_index(r.game_date) < date_index(cutoff))}

\* The offsets of the hosts the store runs on: UTC, and Pacific time.
HostOffsets == {0, -480}

\* CURRENT_TIMESTAMP at local time t: the UTC time, which is what a column
\* with that default holds.
CURRENT_TIMESTAMP(t) == t - utc_offset

\* The usage rows that record_api_call has written on the two days before.
EarlierUsage ==
    {[id |-> i, service |-> "nba_api", endpoint |-> "scoreboard",
      calls_made |-> 1, date |-> DateStr[i]] : i \in 1..(StoreToday - 1)}

Teams == {"Boston Celtics", "New York Knicks"}

\* The standings a caller passes.
StandingsLists == {<<>>, <<"Boston Celtics">>,
                   <<"Boston Celtics", "New York Knicks">>}

\* The rows cache_standings writes for a list at local time t.
standings_rows(sport, st, season, st_type, t) ==
    {[sport |-> sport, team |-> st[i], season |-> season,
      season_type |-> st_type, created_at |-> CURRENT_TIMESTAMP(t)]
        : i \in 1..Len(st)}

\* max_age_minutes as callers give it.
MaxAges == {0, 1, 2}

Max(S) == CHOOSE x \in S : \A y \in S : y <= x

\* age.total_seconds() < (max_age_minutes * 60), the clock in minutes.
is_fresh(last_update, t, max_age_minutes) ==
    (t - last_update) * 60 < max_age_minutes * 60

\* What is_data_fresh returns at local time t.
is_data_fresh_ret(sport, data_type, max_age_minutes, t) ==
    LET result ==
          IF data_type = "games"
          THEN {r.updated_at : r \in {x \in games : x.sport = sport}}
          ELSE {r.created_at : r \in {x \in standings : x.sport = sport}}
    IN  IF data_type \notin {"games", "standings"} THEN FALSE
        ELSE IF result = {} THEN FALSE
        ELSE is_fresh(Max(result), t, max_age_minutes)

\* A DELETE that takes the rows of the cutoff date as well.
delete_before_or_on(tbl, cutoff) ==
    {r \in tbl : ~(date_index(r.date) <= date_index(cutoff))}

\* DELETE FROM api_usage WHERE date < ?
delete_usage_before(tbl, cutoff) ==
    {r \in tbl : ~(date_index(r.date) < date_index(cutoff))}

\* The store's file is new, or holds the usage rows of the days before; the
\* host keeps some local time.
InitStore ==
    /\ AppIdle
    /\ WarmIdle
    /\ ThreadsIdle
    /\ ClassIdle
    /\ PgIdle
    /\ games = {}
    /\ store_time = 0
    /\ store_call = NoStoreCall
    /\ standings = {}
    /\ api_usage \in {{}, EarlierUsage}
    /\ usage_seq = Cardinality(api_usage)
    /\ utc_offset \in HostOffsets
    /\ last_write = [k \in Sports \X DataTypes |-> -1]

store_frame == <<app_vars, warm_vars, thread_vars, class_vars, pg_vars,
                 utc_offset>>

\* cache_games returns, or a statement of it raises sqlite3.Error, which
\* nothing catches: the with block rolls the transaction back and the
\* exception reaches the caller.
cache_games ==
    /\ store_time < MaxStoreOps
    /\ store_time' = store_time + 1
    /\ \E sport \in Sports, game_date \in GameDates, gs \in GameLists :
         LET c == [NoStoreCall EXCEPT !.op = "cache_games", !.sport = sport,
                                      !.game_date = game_date, !.games = gs]
         IN \/ /\ games' = cache_games_table(games, sport, gs, game_date,
                                             store_time')
               /\ store_call' = [c EXCEPT !.removed = removed_ids(games, games')]
               /\ last_write' = [last_write EXCEPT ![<<sport, "games">>] = store_time']
            \/ /\ games' = games
               /\ store_call' = [c EXCEPT !.raised = "sqlite3.OperationalError"]
               /\ last_write' = last_write
    /\ UNCHANGED <<store_frame, standings, api_usage, usage_seq>>

cache_standings ==
    /\ store_time < MaxStoreOps
    /\ store_time' = store_time + 1
    /\ \E sport \in Sports, st \in StandingsLists :
         /\ standings' =
               {r \in standings : ~(r.sport = sport /\ r.season = "2025"
                                    /\ r.season_type = "regular")}
               \cup standings_rows(sport, st, "2025", "regular", store_time')
         /\ store_call' = [NoStoreCall EXCEPT !.op = "cache_standings",
                                              !.sport = sport]
         /\ last_write' = [last_write EXCEPT ![<<sport, "standings">>] = store_time']
    /\ UNCHANGED <<store_frame, games, api_usage, usage_seq>>

record_api_call ==
    /\ store_time < MaxStoreOps
    /\ store_time' = store_time + 1
    /\ usage_seq' = usage_seq + 1
    /\ api_usage' = api_usage \cup
          {[id |-> usage_seq', service |-> "nba_api", endpoint |-> "scoreboard",
            calls_made |-> 1, date |-> DateStr[StoreToday]]}
    /\ store_call' = [NoStoreCall EXCEPT !.op = "record_api_call"]
    /\ UNCHANGED <<store_frame, games, standings, last_write>>

\* is_data_fresh reads the tables and the clock and writes nothing.
is_data_fresh ==
    /\ \E sport \in Sports, data_type \in DataTypes \cup {"odds"},
          max_age_minutes \in MaxAges :
         store_call' = [NoStoreCall EXCEPT
                           !.op = "is_data_fresh", !.sport = sport,
                           !.data_type = data_type,
                           !.max_age_minutes = max_age_minutes,
                           !.ret = is_data_fresh_ret(sport, data_type,
                                                     max_age_minutes, store_time)]
    /\ UNCHANGED <<store_frame, games, store_time, standings, api_usage,
                   usage_seq, last_write>>

purge_old_data ==
    /\ store_time < MaxStoreOps
    /\ store_time' = store_time + 1
    /\ \E days_to_keep \in RetentionDays :
         /\ games' = delete_before(games, cutoff_date(days_to_keep))
         /\ api_usage' = delete_usage_before(api_usage, cutoff_date(days_to_keep))
         /\ store_call' = [NoStoreCall EXCEPT !.op = "purge_old_data",
                              !.days_to_keep = days_to_keep,
                              !.removed = removed_ids(games, games')]
    /\ UNCHANGED <<store_frame, standings, usage_seq, last_write>>

cleanup_old_data ==
    /\ store_time < MaxStoreOps
    /\ store_time' = store_time + 1
    /\ \E days_to_keep \in RetentionDays :
         /\ games' = delete_before(games, cutoff_date(days_to_keep))
         /\ api_usage' = delete_usage_before(api_usage, cutoff_date(days_to_keep))
         /\ store_call' = [NoStoreCall EXCEPT !.op = "cleanup_old_data",
                              !.days_to_keep = days_to_keep,
                              !.removed = removed_ids(games, games')]
    /\ UNCHANGED <<store_frame, standings, usage_seq, last_write>>

NextStore ==
    \/ cache_games
    \/ cache_standings
    \/ record_api_call
    \/ is_data_fresh
    \/ purge_old_data
    \/ cleanup_old_data

SpecStore == InitStore /\ [][NextStore]_vars

(***************************************************************************)
(* get_cached_response and set_cached_response run by several request      *)
(* threads at once.  A thread can be interrupted between any two           *)
(* statements, and between the membership test and the subscript of        *)
(* get_cached_response; one store into the dict, one read of an item and   *)
(* one del are each indivisible.                                           *)
(***************************************************************************)
\* Keys the threads use: one the full cache holds as its oldest, one it has
\* never held.
ThreadKeys == {FillKey(1), FillKey(N + 1)}

\* The keys of the dict, in its order.
keys(c) == [i \in 1..Len(c) |-> c[i].key]

\* A store that replaces the data of a key it finds and leaves the
\* timestamp the key had.
dict_store_data_only(c, cache_key, data, t) ==
    IF HasKey(c, cache_key)
    THEN [c EXCEPT ![IndexOf(c, cache_key)].data = data]
    ELSE Append(c, [key |-> cache_key, data |-> data, timestamp |-> t])

\* _api_cache[cache_key] = (data, timestamp): the tuple is built first and
\* stored as one object.
dict_store(c, cache_key, data, t) ==
    LET item == [key |-> cache_key, data |-> data, timestamp |-> t]
    IN IF HasKey(c, cache_key)
       THEN [c EXCEPT ![IndexOf(c, cache_key)] = item]
       ELSE Append(c, item)

\* _api_cache[cache_key], the key being there.
dict_item(c, cache_key) ==
    [data |-> c[IndexOf(c, cache_key)].data,
     timestamp |-> c[IndexOf(c, cache_key)].timestamp]

finished(th) == [th EXCEPT !.pc = "finished"]

InitThreads ==
    /\ now = StartNow
    /\ api_cache \in {<<>>, Filled(N, "asc")}
    /\ nticks = 0
    /\ API_BASE_URL = "https://api.sportspuff.org"
    /\ pc = "idle"
    /\ req = NoReq
    /\ resp = NoResp
    /\ outcome = NoResult
    /\ calls = <<>>
    /\ nreq = 0
    /\ call = NoCall
    /\ WarmIdle
    /\ StoreIdle
    /\ ClassIdle
    /\ PgIdle
    /\ threads = [t \in Threads |-> NoThread]
    /\ written = Items(api_cache)

thread_frame == <<now, nticks, handler_vars, call, warm_vars, store_vars,
                  class_vars, pg_vars>>

\* A thread enters set_cached_response: the tuple (data, datetime.now()) is
\* built.
thread_put ==
    \E t \in Threads, k \in ThreadKeys, v \in CallData :
       /\ threads[t].pc = "ready"
       /\ threads' = [threads EXCEPT ![t] =
                         [@ EXCEPT !.pc = "put_store", !.op = "put", !.key = k,
                                   !.data = v, !.timestamp = now]]
       /\ UNCHANGED <<api_cache, written, thread_frame>>

\* _api_cache[cache_key] = ...
put_store ==
    \E t \in Threads :
       LET th == threads[t]
       IN /\ th.pc = "put_store"
          /\ api_cache' = dict_store(api_cache, th.key, th.data, th.timestamp)
          /\ written' = written \cup {[key |-> th.key, data |-> th.data,
                                       timestamp |-> th.timestamp]}
          /\ threads' = [threads EXCEPT ![t].pc = "put_len"]
          /\ UNCHANGED thread_frame

\* if len(_api_cache) > 100
put_len ==
    \E t \in Threads :
       /\ threads[t].pc = "put_len"
       /\ threads' = [threads EXCEPT ![t].pc =
                         IF Len(api_cache) > N THEN "put_min" ELSE "finished"]
       /\ UNCHANGED <<api_cache, written, thread_frame>>

\* min(_api_cache.keys(), ...) starts to iterate over the keys.
put_min_begin ==
    \E t \in Threads :
       /\ threads[t].pc = "put_min"
       /\ threads' = [threads EXCEPT ![t] =
                         [@ EXCEPT !.pc = "put_iter",
                                   !.iter_keys = keys(api_cache)]]
       /\ UNCHANGED <<api_cache, written, thread_frame>>

\* min(...) ends: with the oldest key, or, when the dict has changed under
\* the iteration, with RuntimeError (its size has changed) or with KeyError
\* or a key (same size, other keys).
put_min_end ==
    \E t \in Threads :
       LET th == threads[t]
       IN /\ th.pc = "put_iter"
          /\ IF keys(api_cache) = th.iter_keys
             THEN threads' = [threads EXCEPT ![t] =
                                 [@ EXCEPT !.pc = "put_del",
                                           !.oldest_key = oldest_key(api_cache)]]
             ELSE IF Len(api_cache) # Len(th.iter_keys)
             THEN threads' = [threads EXCEPT ![t] =
                                 finished([@ EXCEPT !.raised = "RuntimeError"])]
             ELSE \/ threads' = [threads EXCEPT ![t] =
                                    finished([@ EXCEPT !.raised = "KeyError"])]
                  \/ threads' = [threads EXCEPT ![t] =
                                    [@ EXCEPT !.pc = "put_del",
                                              !.oldest_key = oldest_key(api_cache)]]
          /\ UNCHANGED <<api_cache, written, thread_frame>>

\* del _api_cache[oldest_key]
put_del ==
    \E t \in Threads :
       LET th == threads[t]
       IN /\ th.pc = "put_del"
          /\ IF HasKey(api_cache, th.oldest_key)
             THEN /\ api_cache' = RemoveAt(api_cache,
                                           IndexOf(api_cache, th.oldest_key))
                  /\ threads' = [threads EXCEPT ![t] = finished(@)]
             ELSE /\ UNCHANGED api_cache
                  /\ threads' = [threads EXCEPT ![t] =
                                    finished([@ EXCEPT !.raised = "KeyError"])]
          /\ UNCHANGED <<written, thread_frame>>

\* A thread enters get_cached_response.
thread_get ==
    \E t \in Threads, k \in ThreadKeys :
       /\ threads[t].pc = "ready"
       /\ threads' = [threads EXCEPT ![t] =
                         [@ EXCEPT !.pc = "get_in", !.op = "get", !.key = k,
                                   !.type = "scores"]]
       /\ UNCHANGED <<api_cache, written, thread_frame>>

\* if cache_key in _api_cache
get_in ==
    \E t \in Threads :
       LET th == threads[t]
       IN /\ th.pc = "get_in"
          /\ threads' = [threads EXCEPT ![t] =
                IF HasKey(api_cache, th.key)
                THEN [@ EXCEPT !.pc = "get_read",
                               !.seen = dict_item(api_cache, th.key)]
                ELSE finished(@)]
          /\ UNCHANGED <<api_cache, written, thread_frame>>

\* cached_data, timestamp = _api_cache[cache_key]
get_read ==
    \E t \in Threads :
       LET th == threads[t]
       IN /\ th.pc = "get_read"
          /\ threads' = [threads EXCEPT ![t] =
                IF HasKey(api_cache, th.key)
                THEN [@ EXCEPT !.pc = "get_fresh",
                               !.pair = dict_item(api_cache, th.key)]
                ELSE finished([@ EXCEPT !.raised = "KeyError"])]
          /\ UNCHANGED <<api_cache, written, thread_frame>>

\* if (datetime.now(timezone.utc) - timestamp).total_seconds() < ttl
get_fresh ==
    \E t \in Threads :
       LET th == threads[t]
       IN /\ th.pc = "get_fresh"
          /\ threads' = [threads EXCEPT ![t] =
                finished([@ EXCEPT !.ret =
                            IF now - th.pair.timestamp < cache_ttl(th.type)
                            THEN th.pair.data ELSE None])]
          /\ UNCHANGED <<api_cache, written, thread_frame>>

NextThreads ==
    \/ Tick
    \/ thread_put
    \/ put_store
    \/ put_len
    \/ put_min_begin
    \/ put_min_end
    \/ put_del
    \/ thread_get
    \/ get_in
    \/ get_read
    \/ get_fresh

SpecThreads == InitThreads /\ [][NextThreads]_vars

(***************************************************************************)
(* Properties of the cache on its own (SpecCache).  The clock is taken to  *)
(* be non-decreasing.                                                      *)
(***************************************************************************)

\* C4: after any sequence of puts the cache holds at most N = 100 entries.
C4_AtMostN == Len(api_cache) <= N

\* A put of a key the full cache did not hold has just evicted an entry.
C4_Witness ==
    /\ call.op = "put"
    /\ call.key = FillKey(N + 1)
    /\ Len(api_cache) = N
    /\ \E i \in 1..N : ~HasKey(api_cache, FillKey(i))

\* C5: a put of a new key into a cache of N entries removes exactly one
\* entry, one of least timestamp, and keeps every other entry and the new one
\* as they are; a get changes no entry.
C5_EvictsOldestCaptured ==
    [][/\ (call'.op = "put" /\ nreq' = nreq + 1 /\ Len(api_cache) = N
             /\ ~HasKey(api_cache, call'.key))
          => /\ Len(api_cache') = N
             /\ \E i \in 1..N :
                  /\ \A j \in 1..N :
                       api_cache[i].timestamp <= api_cache[j].timestamp
                  /\ Items(api_cache') =
                       (Items(api_cache) \ {api_cache[i]})
                       \cup {[key |-> call'.key, data |-> call'.data,
                              timestamp |-> now]}
       /\ (call'.op = "get" /\ nreq' = nreq + 1) => api_cache' = api_cache
      ]_vars

\* The entry evicted was neither the first put nor the last put into the
\* cache: it was the one captured longest ago.
C5_Witness ==
    /\ call.op = "put"
    /\ Len(api_cache) = N
    /\ HasKey(api_cache, FillKey(1))
    /\ HasKey(api_cache, call.key)
    /\ ~HasKey(api_cache, FillKey(N))

C6_WitnessExpired ==
    /\ call.op = "get"
    /\ call.ret = None
    /\ \E e \in Items(api_cache) :
         e.key = call.key /\ now - e.timestamp = cache_ttl(call.type)

(***************************************************************************)
(* Properties of the two handlers (Spec).                                  *)
(***************************************************************************)
\* A handler takes its first step: from the request to a response, or to
\* the GET.
LookupStep == pc = "idle" /\ pc' # "idle"

\* The handler has answered after an upstream attempt that failed.
FailedAttempt == pc = "done" /\ calls # <<>> /\ failure_of(outcome) # ""

\* The handler has answered after an upstream attempt that succeeded.
SucceededAttempt == pc = "done" /\ calls # <<>> /\ failure_of(outcome) = ""

IsToday(date) == date \in {"today", "Today", "TODAY"}

\* The key dataKind:league:date:timezone, written out.
KeyText(kind, league, date, tz) == kind \o ":" \o league \o ":" \o date \o ":" \o tz

TTLOf(kind) == IF kind = "schedule" THEN 300 ELSE 30

\* C1: when the fetch of a scores request fails and the cache holds, under
\* the request's key, an entry whose TTL has expired and whose date is the
\* current date, the response is that entry's payload with a success status.
C1_ExpiredEntryServedOnFailure ==
    (FailedAttempt /\ req.kind = "scores") =>
        \A e \in Items(api_cache) :
            (/\ e.key = req.cache_key
             /\ now - e.timestamp >= TTLOf("scores")
             /\ e.data.date = strftime(now))
            => (resp.status = 200 /\ resp.body = e.data)

\* C2: after a failed attempt a cached value is the response only if its
\* date is the current UTC date; when the cache holds no entry for the key,
\* or one of another date, the response is the structured failure.
C2_FallbackOnlyOfToday ==
    FailedAttempt =>
        /\ resp.src # "error" =>
              /\ resp.src = "fallback"
              /\ resp.body.date = DateStr[now \div DayLen]
              /\ \E e \in Items(api_cache) :
                    e.key = req.cache_key /\ e.data = resp.body
        /\ (\A e \in Items(api_cache) :
               e.key = req.cache_key => e.data.date # DateStr[now \div DayLen])
           => /\ resp.src = "error"
              /\ resp.body.error # ""
              /\ resp.body.date = ""

\* A scores request whose fetch failed has been answered with the cached
\* value.
C2_Witness == FailedAttempt /\ resp.src = "fallback"

\* A scores request whose fetch failed has been answered with the failure
\* although the cache held a value for its key, of another date.
C2_WitnessRefused ==
    /\ FailedAttempt
    /\ req.kind = "scores"
    /\ resp.src = "error"
    /\ Truthy(req.cached_response)

\* A "today" request arrives on the second day while the cache holds, under
\* the first day's key, an entry captured on the first day less than TTL ago.
C3_Case(r) ==
    /\ LookupStep
    /\ IsToday(r.date)
    /\ now \div DayLen = 2
    /\ \E e \in Items(api_cache) :
         /\ e.key = KeyText(r.kind, r.league, DateStr[1], r.tz)
         /\ e.timestamp \div DayLen = 1
         /\ now - e.timestamp < TTLOf(r.kind)

\* C3 as stated: a "today" request answered and cached on date D, repeated on
\* D+1 less than TTL later, is a cache miss and goes upstream.
C3_NextDayAlwaysUpstream ==
    [][C3_Case(req') => pc' = "fetching"]_vars

\* C3 as amended: the request of D+1 looks up the key of D+1, never the entry
\* captured on D, and goes upstream unless a request for the literal date
\* D+1 has left an entry of age < TTL under the key of D+1.
C3_NextDayUsesNextDayKey ==
    [][C3_Case(req') =>
         /\ req'.cache_key = KeyText(req'.kind, req'.league, DateStr[2], req'.tz)
         /\ (\A e \in Items(api_cache) :
                e.key = KeyText(req'.kind, req'.league, DateStr[2], req'.tz)
                => now - e.timestamp >= TTLOf(req'.kind))
            => pc' = "fetching"
      ]_vars

\* The GET of a "today" request of the second day is on the wire while the
\* first day's entry is less than TTL old.
C3_Witness ==
    /\ pc = "fetching"
    /\ IsToday(req.date)
    /\ req.cache_key = KeyText(req.kind, req.league, DateStr[2], req.tz)
    /\ \E e \in Items(api_cache) :
         /\ e.key = KeyText(req.kind, req.league, DateStr[1], req.tz)
         /\ e.timestamp \div DayLen = 1
         /\ now - e.timestamp < TTLOf(req.kind)

\* A request for a literal date finds an entry of age < TTL under its key.
C7_Case(r, e) ==
    /\ LookupStep
    /\ ~IsToday(r.date)
    /\ e \in Items(api_cache)
    /\ e.key = KeyText(r.kind, r.league, r.date, r.tz)
    /\ now - e.timestamp < TTLOf(r.kind)

\* C7 as stated: a request for a literal date made less than TTL after a
\* successful fetch of the same key is answered from the cache.
C7_LiteralDateTTLAlone ==
    [][\A e \in Items(api_cache) :
          C7_Case(req', e) => (resp'.src = "cache" /\ resp'.body = e.data)
      ]_vars

\* C7 as amended: such a request is answered from the cache if and only if
\* the cached payload is a non-empty JSON object whose 'date' field is the
\* current UTC date, and then with that payload.
C7_LiteralDateNeedsPayloadOfToday ==
    [][\A e \in Items(api_cache) :
          C7_Case(req', e) =>
             /\ resp'.src = "cache" <=>
                   (/\ e.data.t = "dict"
                    /\ ~e.data.empty
                    /\ e.data.date = DateStr[now \div DayLen])
             /\ resp'.src = "cache" => (resp'.body = e.data /\ pc' = "done")
      ]_vars

\* A request for a literal date has been answered from the cache.
C7_Witness ==
    /\ pc = "done"
    /\ ~IsToday(req.date)
    /\ req.date # ""
    /\ resp.src = "cache"

\* A request for a literal date is fetched again although the cache held an
\* entry of age < TTL under its key.
C7_WitnessRefetched ==
    /\ pc = "fetching"
    /\ ~IsToday(req.date)
    /\ Truthy(req.cached_response)

\* C8: for a request of "today", in any case of letters, the upstream
\* parameter is the literal "today" and the date of the cache key is the
\* current UTC date; for any other date both are that literal date.
C8_KeyNormalizer ==
    [][LookupStep =>
         LET r == req'
             date_of_key == IF IsToday(r.date) THEN DateStr[now \div DayLen]
                            ELSE r.date
             parameter == IF IsToday(r.date) THEN "today" ELSE r.date
         IN /\ r.cache_key = KeyText(r.kind, r.league, date_of_key, r.tz)
            /\ r.api_date = parameter
            /\ pc' = "fetching" =>
                 calls' = <<API_BASE_URL \o "/api/v1/" \o r.kind \o "/"
                            \o r.league \o "/" \o parameter \o "?tz=" \o r.tz>>
      ]_vars

\* The GET of a request of "TODAY" is on the wire on the second day.
C8_Witness ==
    /\ pc = "fetching"
    /\ req.date = "TODAY"
    /\ now \div DayLen = 2
    /\ calls # <<>>

\* C9: when the upstream call succeeds with a valid payload the response is
\* that payload, and the entry of the request's key holds it with the
\* current time; no cached value is the response.
C9_FreshSupersedes ==
    SucceededAttempt =>
        /\ resp.status = 200
        /\ resp.src = "upstream"
        /\ resp.body = outcome.body
        /\ \E e \in Items(api_cache) :
              /\ e.key = req.cache_key
              /\ e.data = outcome.body
              /\ e.timestamp = now
        /\ \A e \in Items(api_cache) : e.key = req.cache_key => e.data = outcome.body

\* A successful fetch has replaced a cached value that differed from it.
C9_Witness ==
    /\ SucceededAttempt
    /\ Truthy(req.cached_response)
    /\ req.cached_response # outcome.body

\* C10 as stated: a request issues no GET when it is answered from the cache
\* and exactly one otherwise.
C10_OneGetUnlessCached ==
    pc = "done" => Len(calls) = (IF resp.src = "cache" THEN 0 ELSE 1)

\* C10 as amended: a request issues at most one GET; none when it is answered
\* from the cache, when no base URL is configured, or when the cached value
\* is not a JSON object; exactly one in every other case, whether the attempt
\* fails or succeeds.
C10_AtMostOneGet ==
    /\ Len(calls) <= 1
    /\ pc = "fetching" => Len(calls) = 1
    /\ pc = "done" =>
         /\ Len(calls) = 0 <=>
               \/ resp.src = "cache"
               \/ API_BASE_URL = ""
               \/ (Truthy(req.cached_response) /\ req.cached_response.t # "dict")
         /\ resp.src \in {"upstream", "fallback"} => Len(calls) = 1
         /\ outcome # NoResult => Len(calls) = 1

\* A request has been answered with a failure after its one GET.
C10_Witness ==
    /\ FailedAttempt
    /\ resp.src = "error"
    /\ Len(calls) = 1

\* An HTTP status of the 2xx class.
IsSuccessStatus(s) == s \in 200..299

\* C11: every answered request carries either a payload with a success
\* status, or a structured error: a message together with a status that is
\* not a success status, whatever the failure kind and the upstream status.
C11_ErrorHasErrorStatus ==
    pc = "done" =>
        \/ /\ resp.src \in {"cache", "upstream", "fallback"}
           /\ IsSuccessStatus(resp.status)
           /\ resp.body.error = ""
        \/ /\ resp.src = "error"
           /\ resp.body.error # ""
           /\ ~IsSuccessStatus(resp.status)

\* The upstream answered 5xx with a body that is not JSON.
C12_Case ==
    /\ pc = "done"
    /\ calls # <<>>
    /\ outcome.exc = ""
    /\ outcome.status_code >= 500
    /\ outcome.body.t = "invalid"

C12_WitnessScores ==
    /\ C12_Case
    /\ outcome.status_code = 500
    /\ req.kind = "scores"
    /\ resp.src = "error"

\* C13: when the fetch of a schedule request fails and the cache holds,
\* under the request's key, an entry dated the current date, the response is
\* that entry's payload and not a structured error.
C13_ScheduleFallsBack ==
    (FailedAttempt /\ req.kind = "schedule") =>
        \A e \in Items(api_cache) :
            (e.key = req.cache_key /\ e.data.date = strftime(now))
            => (resp.src # "error" /\ resp.body = e.data)

\* One attempt failed in one of the five ways, read off the result itself.
C14_Failed(r) ==
    \/ r.exc \in Exceptions
    \/ r.exc = "" /\ r.status_code # 200
    \/ r.exc = "" /\ r.status_code = 200 /\ r.body.t = "invalid"
    \/ r.exc = "" /\ r.status_code = 200 /\ r.body.t = "dict" /\ r.body.error # ""

ReadInGameHours == current_hour >= 18 \/ current_hour < 2

\* A run is due: in game hours, or at a minute that is a multiple of 5.
RunIsDue == ReadInGameHours \/ current_minute % 5 = 0

\* C16: a finished invocation has sent requests if and only if the hour it
\* read is in game hours or the minute it read is a multiple of 5; in the
\* remaining case it has sent none and has returned True; and a sweep is
\* only ever under way when a run is due.
C16_SweepIffDue ==
    /\ wpc = "sweep" => RunIsDue
    /\ wpc = "returned" =>
         /\ RunIsDue <=> requests_sent # <<>>
         /\ ~RunIsDue =>
               /\ requests_sent = <<>>
               /\ success_count = 0
               /\ error_count = 0
               /\ returned = "True"

\* The warmer, started in off hours at a minute that 5 does not divide, has
\* returned.
C16_Witness ==
    /\ wpc = "returned"
    /\ current_hour = 17
    /\ current_minute = 4
    /\ requests_sent = <<>>

\* The warmer, started in off hours at a multiple of 5, has swept.
C16_WitnessOffHoursSweep ==
    /\ wpc = "returned"
    /\ current_hour = 2
    /\ current_minute = 5
    /\ requests_sent # <<>>

\* C17: in game hours the schedule request of a (league, timezone) pair is
\* sent only after the scores request of that pair, and in off hours the
\* scores request only after the schedule request.
C17_ModeOrder ==
    LET first == IF ReadInGameHours THEN "scores" ELSE "schedule"
    IN \A j \in 1..Len(requests_sent) :
          requests_sent[j].kind # first =>
              \E i \in 1..(j - 1) :
                 /\ requests_sent[i].kind = first
                 /\ requests_sent[i].league = requests_sent[j].league
                 /\ requests_sent[i].tz = requests_sent[j].tz

\* A sweep of the off hours has been completed.
C17_Witness ==
    /\ wpc = "returned"
    /\ ~ReadInGameHours
    /\ Len(requests_sent) = 48
    /\ requests_sent[1].kind = "schedule"

\* A sweep of the game hours has been completed.
C17_WitnessGameHours ==
    /\ wpc = "returned"
    /\ ReadInGameHours
    /\ Len(requests_sent) = 48
    /\ requests_sent[1].kind = "scores"

\* C18: every request sent is counted once, as a success or as an error; a
\* sweep under way can always send its next request; and a finished sweep
\* has sent exactly one scores and one schedule request for each of the 6
\* leagues and 4 timezones, 48 in all, and has returned True if and only if
\* no error was counted.
C18_SweepCompletes ==
    /\ success_count + error_count = Len(requests_sent)
    /\ wpc = "sweep" => (Len(requests_sent) < 48 /\ ENABLED warm_cache_get)
    /\ (wpc = "returned" /\ requests_sent # <<>>) =>
         /\ \A l \in {"nba", "nhl", "nfl", "mlb", "mls", "wnba"},
               t \in {"pst", "est", "cst", "mst"},
               k \in {"scores", "schedule"} :
               Cardinality({i \in 1..Len(requests_sent) :
                              /\ requests_sent[i].kind = k
                              /\ requests_sent[i].league = l
                              /\ requests_sent[i].tz = t}) = 1
         /\ success_count + error_count = 48
         /\ returned \in {"True", "False"}
         /\ returned = "True" <=> error_count = 0

\* A sweep has been completed although some of its requests failed.
C18_Witness ==
    /\ wpc = "returned"
    /\ Len(requests_sent) = 48
    /\ error_count > 0
    /\ success_count > 0
    /\ returned = "False"

(***************************************************************************)
(* Properties of the persistent store (SpecStore).                         *)
(***************************************************************************)
\* A call of cache_games has just returned.
UpsertStep ==
    /\ store_time' # store_time
    /\ store_call'.op = "cache_games"
    /\ store_call'.raised = ""

\* A call of purge_old_data or cleanup_old_data has just returned.
PurgeStep ==
    /\ store_time' # store_time
    /\ store_call'.op \in {"purge_old_data", "cleanup_old_data"}

\* The rows stored under a sport and a date.
RowsOf(tbl, sport, game_date) ==
    {r \in tbl : r.sport = sport /\ r.game_date = game_date}

\* The games of a list, as a set.
GamesOf(gs) == {gs[i] : i \in 1..Len(gs)}

\* What tells one game of a list from another: its id, or, without an id,
\* its teams and its time.
C19_Identity(g) ==
    IF g.id # "" THEN g.id
    ELSE g.home_team \o "/" \o g.away_team \o "/" \o g.game_time

\* C19: after any upsert the rows of its (sport, date) are the games of the
\* set it was given, one row per game, each row written by this upsert and
\* none left over from an earlier one.
C19_FullReplace ==
    [][UpsertStep =>
         LET c == store_call'
             R == RowsOf(games', c.sport, c.game_date)
             G == GamesOf(c.games)
         IN /\ Cardinality(R) = Cardinality({C19_Identity(g) : g \in G})
            /\ \A g \in G : \E r \in R :
                  /\ g.id # "" => r.id = g.id
                  /\ r.home_team = g.home_team
                  /\ r.away_team = g.away_team
                  /\ r.game_time = g.game_time
            /\ \A r \in R :
                  /\ r.updated_at = store_time'
                  /\ \E g \in G :
                        /\ g.id # "" => r.id = g.id
                        /\ r.status = g.status
                        /\ r.game_time = g.game_time
      ]_vars

\* The id of the row a game of a call is written to.
C20_RowId(c, g) ==
    IF g.id # "" THEN g.id
    ELSE c.sport \o "_" \o c.game_date \o "_" \o g.home_team \o "_" \o g.away_team

\* The rows of an upsert hold, for each row id of its list, the last game of
\* the list with that id, and nothing else.
C19_OneRowPerId ==
    [][UpsertStep =>
         LET c == store_call'
             R == RowsOf(games', c.sport, c.game_date)
             n == Len(c.games)
         IN /\ {r.id : r \in R} = {C20_RowId(c, c.games[i]) : i \in 1..n}
            /\ Cardinality(R) = Cardinality({r.id : r \in R})
            /\ \A r \in R : \E i \in 1..n :
                  /\ r.id = C20_RowId(c, c.games[i])
                  /\ r.status = c.games[i].status
                  /\ r.game_time = c.games[i].game_time
                  /\ r.updated_at = store_time'
                  /\ \A j \in (i + 1)..n : C20_RowId(c, c.games[j]) # r.id
      ]_vars

\* C20 as stated: a stored game stays stored, with the creation time it
\* has, through every call that is not a purge.
C20_DeletedOnlyByPurge ==
    [][\A r \in games :
          \/ PurgeStep
          \/ \E r2 \in games' : r2.id = r.id /\ r2.created_at = r.created_at
      ]_vars

\* C20 as amended: a stored game id leaves the store only through a purge
\* whose cutoff lies after the game's date, or through an upsert for the
\* game's own (sport, date) whose list does not carry the id; a row that
\* stays is either untouched, or written anew by an upsert that carries its
\* id, under that upsert's sport and date and with a new creation time.
C20_RemovedByPurgeOrOwnUpsert ==
    [][LET c == store_call'
       IN \A r \in games :
            IF \E r2 \in games' : r2.id = r.id
            THEN \/ r \in games'
                 \/ /\ UpsertStep
                    /\ \E i \in 1..Len(c.games) : C20_RowId(c, c.games[i]) = r.id
                    /\ \E r2 \in games' :
                          /\ r2.id = r.id
                          /\ r2.sport = c.sport
                          /\ r2.game_date = c.game_date
                          /\ r2.created_at = store_time'
            ELSE \/ /\ PurgeStep
                    /\ date_index(r.game_date) < StoreToday - c.days_to_keep
                 \/ /\ UpsertStep
                    /\ r.sport = c.sport
                    /\ r.game_date = c.game_date
                    /\ \A i \in 1..Len(c.games) : C20_RowId(c, c.games[i]) # r.id
      ]_vars

\* An upsert has taken a stored game out of the store and has written
\* another game in its place.
C20_Witness ==
    /\ store_call.op = "cache_games"
    /\ store_call.removed # {}
    /\ games # {}

(***************************************************************************)
(* Properties of the cache under concurrent threads (SpecThreads).         *)
(***************************************************************************)
\* A (data, timestamp) pair found under a key is one that a single put of
\* that key has stored.
StoredByOnePut(k, pair) ==
    [key |-> k, data |-> pair.data, timestamp |-> pair.timestamp] \in written

\* C15: whatever the interleaving of puts and gets, every item of the dict
\* is the (payload, capturedAt) pair of a single put for its key, and so is
\* every pair a reader has taken out of it; a reader that has taken no pair
\* returns no entry, and one that returns a payload returns the payload of
\* the pair it has taken.
C15_NoTornRead ==
    /\ \A e \in Items(api_cache) : e \in written
    /\ \A t \in Threads :
          LET th == threads[t]
          IN /\ th.pair # NoPair => StoredByOnePut(th.key, th.pair)
             /\ th.seen # NoPair => StoredByOnePut(th.key, th.seen)
             /\ th.pair = NoPair => th.ret = None
             /\ th.ret # None => th.ret = th.pair.data

\* A reader has returned the payload of a pair that another thread's put
\* stored between the reader's membership test and its read of the item.
C15_Witness ==
    \E t \in Threads, u \in Threads :
       /\ t # u
       /\ threads[t].op = "get"
       /\ threads[t].pc = "finished"
       /\ threads[t].ret # None
       /\ threads[t].pair # threads[t].seen
       /\ threads[u].op = "put"
       /\ threads[u].key = threads[t].key
       /\ threads[t].pair = [data |-> threads[u].data,
                             timestamp |-> threads[u].timestamp]

(***************************************************************************)
(* Further properties of the two handlers (Spec).                          *)
(***************************************************************************)
\* C27: a request that finds under its key (the key an identical request
\* has stored its payload under) an entry captured on the current UTC date
\* and less than TTL ago is answered with that payload, with a success
\* status and without a GET, whatever valid payload the entry holds.
C27_RepeatServedFromCache ==
    [][LookupStep =>
         \A e \in Items(api_cache) :
            (/\ e.key = req'.cache_key
             /\ now - e.timestamp < TTLOf(req'.kind)
             /\ e.timestamp \div DayLen = now \div DayLen)
            => /\ resp'.src = "cache"
               /\ resp'.status = 200
               /\ resp'.body = e.data
               /\ calls' = <<>>
      ]_vars

(***************************************************************************)
(* Further properties of the cache under concurrent threads (SpecThreads). *)
(***************************************************************************)
\* C28: no put raises, whatever the interleaving, so that every request
\* returns the payload it has fetched; and once every thread has finished
\* its put the cache holds at most N entries.
C28_ConcurrentPutsComplete ==
    /\ \A t \in Threads : threads[t].op = "put" => threads[t].raised = ""
    /\ (\A t \in Threads : threads[t].op = "put" /\ threads[t].pc = "finished")
          => Len(api_cache) <= N

(***************************************************************************)
(* The season-type classifiers.  Two classes define detect_season_type:    *)
(* NBAScheduleCollector (src/nba_schedule_collector.py) and                *)
(* NBAFullScheduleImporter (src/nba_full_schedule_importer.py); both fill  *)
(* the season_type column of nba_games.                                    *)
(***************************************************************************)
Months == 1..12

\* Days of the month that lie on, next to and away from the edges of the
\* mid-February window.
Days == {1, 9, 10, 15, 20, 21, 28}

GameTypes == {"", "tournament", "allstar"}

GameLabels == {"", "Preseason", "Emirates NBA Cup"}

GameSubtypes == {"", "in-season"}

\* The game_data a caller passes: None or {} (given is FALSE), or a game of
\* the provider with the fields the classifiers read.
GameData ==
    {NoGameData} \cup
    [given : {TRUE}, gameType : GameTypes, isNBAcup : BOOLEAN,
     isAllStar : BOOLEAN, gameLabel : GameLabels, gameSubtype : GameSubtypes]

\* NBAScheduleCollector.detect_season_type(date_obj, game_data).
NBAScheduleCollector_detect_season_type(d, g) ==
    IF g.given /\ (g.gameType = "tournament" \/ g.isNBAcup)
    THEN <<"nba_cup", "NBA Cup (In-Season Tournament)">>
    ELSE IF g.given /\ (g.gameType = "allstar" \/ g.isAllStar)
    THEN <<"all_star_break", "All-Star Game">>
    ELSE IF d.month \in {10} THEN <<"preseason", "Preseason">>
    ELSE IF d.month \in {11, 12, 1, 2, 3, 4}
    THEN IF d.month = 2 /\ 10 <= d.day /\ d.day <= 20
         THEN <<"all_star_break", "All-Star Break">>
         ELSE IF d.month \in {11, 12}
         THEN <<"nba_cup", "NBA Cup Period">>
         ELSE <<"regular_season", "Regular Season">>
    ELSE IF d.month \in {5, 6} THEN <<"playoffs", "Playoffs">>
    ELSE <<"off_season", "Off Season">>

\* NBAFullScheduleImporter.detect_season_type(date_obj, game_data): the
\* date is not read, and neither are gameType, isNBAcup and isAllStar.
NBAFullScheduleImporter_detect_season_type(d, g) ==
    IF ~g.given THEN <<"regular_season", "Regular Season">>
    ELSE IF g.gameLabel = "Preseason"
    THEN IF g.gameSubtype = "Global Games"
         THEN <<"preseason", "Preseason (Global Games)">>
         ELSE <<"preseason", "Preseason">>
    ELSE IF g.gameLabel = "Emirates NBA Cup"
    THEN IF g.gameSubtype = "in-season-knockout"
         THEN <<"nba_cup", "NBA Cup (Knockout Round)">>
         ELSE IF g.gameSubtype = "in-season"
         THEN <<"nba_cup", "NBA Cup (Group Stage)">>
         ELSE <<"nba_cup", "NBA Cup">>
    ELSE <<"regular_season", "Regular Season">>

\* A game of some date is about to be classified.
InitClassify ==
    /\ AppIdle
    /\ WarmIdle
    /\ StoreIdle
    /\ ThreadsIdle
    /\ PgIdle
    /\ date_obj \in [month : Months, day : Days]
    /\ game_data \in GameData
    /\ season_type = NoSeasonType

collector_detect_season_type ==
    /\ season_type = NoSeasonType
    /\ LET r == NBAScheduleCollector_detect_season_type(date_obj, game_data)
       IN  season_type' = [by |-> "NBAScheduleCollector",
                           season_type |-> r[1], description |-> r[2]]
    /\ UNCHANGED <<app_vars, warm_vars, store_vars, thread_vars, pg_vars,
                   date_obj, game_data>>

importer_detect_season_type ==
    /\ season_type = NoSeasonType
    /\ LET r == NBAFullScheduleImporter_detect_season_type(date_obj, game_data)
       IN  season_type' = [by |-> "NBAFullScheduleImporter",
                           season_type |-> r[1], description |-> r[2]]
    /\ UNCHANGED <<app_vars, warm_vars, store_vars, thread_vars, pg_vars,
                   date_obj, game_data>>

NextClassify ==
    \/ collector_detect_season_type
    \/ importer_detect_season_type

SpecClassify == InitClassify /\ [][NextClassify]_vars

\* The flags the claim speaks of, as the provider sets them.
FlaggedTournament ==
    game_data.given /\ (game_data.gameType = "tournament" \/ game_data.isNBAcup)

FlaggedAllStar ==
    game_data.given /\ (game_data.gameType = "allstar" \/ game_data.isAllStar)

Classified == season_type.by # ""

\* C24: whatever the month and the day, a classifier gives nba_cup to a
\* game flagged as tournament (and not as all-star) and all_star_break to a
\* game flagged as all-star (and not as tournament).
C24_FlagWinsOverCalendar ==
    Classified =>
        /\ (FlaggedTournament /\ ~FlaggedAllStar)
              => season_type.season_type = "nba_cup"
        /\ (FlaggedAllStar /\ ~FlaggedTournament)
              => season_type.season_type = "all_star_break"

\* The same, of the collector's classifier alone.
C24_CollectorFlagWins ==
    season_type.by = "NBAScheduleCollector" =>
        /\ (FlaggedTournament /\ ~FlaggedAllStar)
              => season_type.season_type = "nba_cup"
        /\ (FlaggedAllStar /\ ~FlaggedTournament)
              => season_type.season_type = "all_star_break"

SeasonTypes == {"preseason", "nba_cup", "all_star_break", "playoffs",
                "off_season", "regular_season"}

\* No label of any kind: no game data, or game data with every field the
\* classifiers read left empty.
Unlabelled ==
    /\ ~FlaggedTournament
    /\ ~FlaggedAllStar
    /\ game_data.gameLabel = ""

\* The class the calendar gives a date.
CalendarClass(d) ==
    IF d.month = 10 THEN "preseason"
    ELSE IF d.month \in {11, 12} THEN "nba_cup"
    ELSE IF d.month = 2 /\ d.day \in 10..20 THEN "all_star_break"
    ELSE IF d.month \in {5, 6} THEN "playoffs"
    ELSE IF d.month \in {7, 8, 9} THEN "off_season"
    ELSE "regular_season"

\* C25: a game without a label gets one of the six classes, the one the
\* calendar gives its date: October preseason, November and December
\* nba_cup, February 10th to 20th all_star_break, May and June playoffs,
\* July to September off_season, and regular_season otherwise.
C25_CalendarDefault ==
    (Classified /\ Unlabelled) =>
        /\ season_type.season_type \in SeasonTypes
        /\ season_type.season_type = CalendarClass(date_obj)

\* The same, of the collector's classifier alone.
C25_CollectorCalendarDefault ==
    (season_type.by = "NBAScheduleCollector" /\ Unlabelled) =>
        /\ season_type.season_type \in SeasonTypes
        /\ season_type.season_type = CalendarClass(date_obj)


(***************************************************************************)
(* Further properties of the persistent store (SpecStore).                 *)
(***************************************************************************)
\* C21: is_data_fresh returns True exactly when a write of that (sport,
\* data type) has returned and less than max_age_minutes have passed since
\* the latest one; it returns False when there was no such write and for a
\* data type it does not know.
C21_FreshIffRecentWrite ==
    store_call.op = "is_data_fresh" =>
        LET c == store_call
            known == c.data_type \in DataTypes
            last == last_write[<<c.sport, c.data_type>>]
        IN  c.ret <=> (/\ known
                       /\ last >= 0
                       /\ store_time - last < c.max_age_minutes)

\* On a host that keeps UTC, is_data_fresh returns True exactly when a row
\* of the sport is stored and the newest one is younger than
\* max_age_minutes.
C21_NewestRowOnUTCHost ==
    (store_call.op = "is_data_fresh" /\ utc_offset = 0) =>
        LET c == store_call
            rows == IF c.data_type = "games"
                    THEN {r.updated_at : r \in {x \in games : x.sport = c.sport}}
                    ELSE IF c.data_type = "standings"
                    THEN {r.created_at : r \in {x \in standings : x.sport = c.sport}}
                    ELSE {}
        IN  c.ret <=> \E t \in rows :
                         /\ \A u \in rows : u <= t
                         /\ store_time - t < c.max_age_minutes

\* C22: a purge deletes exactly the game rows and the usage rows dated
\* before the cutoff, the date days_to_keep days before today, and leaves
\* every other row as it is; no row dated before the cutoff is left, so that
\* the same purge run again deletes nothing.
C22_PurgeExactlyOld ==
    [][PurgeStep =>
         LET cutoff == StoreToday - store_call'.days_to_keep
         IN /\ games' = {r \in games : date_index(r.game_date) >= cutoff}
            /\ api_usage' = {u \in api_usage : date_index(u.date) >= cutoff}
            /\ \A r \in games' : date_index(r.game_date) >= cutoff
            /\ \A u \in api_usage' : date_index(u.date) >= cutoff
            /\ standings' = standings
      ]_vars

\* A purge has deleted a game row and a usage row and has left a usage row
\* of the cutoff date.
C22_Witness ==
    /\ store_call.op \in {"purge_old_data", "cleanup_old_data"}
    /\ store_call.removed # {}
    /\ usage_seq = 2
    /\ Cardinality(api_usage) = 1
    /\ \A u \in api_usage : date_index(u.date) = StoreToday - store_call.days_to_keep

\* C23: a call of cache_games never ends with the database's exception
\* reaching its caller.
C23_WriteNeverRaises ==
    store_call.op = "cache_games" => store_call.raised = ""

GameStatuses == {"scheduled", "live", "final"}

\* C26: every row of the games table and of nba_games has a status that is
\* one of scheduled, live and final.
C26_StatusInDomain ==
    /\ \A r \in games : r.status \in GameStatuses
    /\ \A r \in nba_games : r.game_status \in GameStatuses

\* C29: a call of cache_games leaves every row stored under another sport
\* or another date as it is.
C29_OtherRowsUntouched ==
    [][UpsertStep =>
         \A r \in games :
            (r.sport # store_call'.sport \/ r.game_date # store_call'.game_date)
               => r \in games'
      ]_vars


(***************************************************************************)
(* The nba_games table: rows written by NBAScheduleCollector               *)
(* .save_games_to_db (src/nba_schedule_collector.py) and updated by        *)
(* NBAScoresUpdater.update_scores_for_date (src/nba_scores_updater.py).    *)
(***************************************************************************)
PgGameIds == {"0022500001", "0022500002"}

\* gameStatus as the collector's provider gives it: absent, which the
\* collector reads as 'scheduled', or the provider's numbers 1 and 3.
CollectorStatuses == {"scheduled", "1", "3"}

\* gameStatusText of the live scoreboard, letter by letter: a tip-off time,
\* a quarter, half time, the end, and the end after overtime.
StatusTexts ==
    {<<"7", ":", "3", "0", " ", "p", "m", " ", "E", "T">>,
     <<"Q", "3", " ", "5", ":", "1", "2">>,
     <<"H", "a", "l", "f">>,
     <<"F", "i", "n", "a", "l">>,
     <<"F", "i", "n", "a", "l", "/", "O", "T">>}

\* The scores the scoreboard gives, home first.
ApiScores == {<<0, 0>>, <<101, 99>>}

HomeTeamId == 1

AwayTeamId == 2

\* winner_team_id NULL.
NoWinner == 0

\* 'Q' in text
has_Q(text) == \E i \in 1..Len(text) : text[i] = "Q"

\* 'OT' in text
has_OT(text) == \E i \in 1..(Len(text) - 1) : text[i] = "O" /\ text[i + 1] = "T"

\* The status update_game_scores derives from GAME_STATUS_TEXT.
status_of_text(text) ==
    IF text = <<"F", "i", "n", "a", "l">> THEN "final"
    ELSE IF has_Q(text) \/ has_OT(text) THEN "live"
    ELSE "scheduled"

\* The winner update_game_scores derives.
winner_of(text, home_score, away_score, db_game) ==
    IF text = <<"F", "i", "n", "a", "l">>
    THEN IF home_score > away_score THEN db_game.home_team_id
         ELSE db_game.away_team_id
    ELSE NoWinner

\* The games the collector is given.
CollectorGames ==
    [gameId : PgGameIds, gameDate : GameDates, gameStatus : CollectorStatuses]

\* The games fetch_live_scores returns.
ApiGames == [GAME_ID : PgGameIds, GAME_STATUS_TEXT : StatusTexts,
             score : ApiScores]

ApiGameLists == UNION {[1..n -> ApiGames] : n \in 0..MaxApiGames}

\* INSERT ... ON CONFLICT (game_id) DO UPDATE SET home_score, away_score,
\* game_status, game_status_text, updated_at.
pg_upsert(tbl, game, t) ==
    IF \E r \in tbl : r.game_id = game.gameId
    THEN {IF r.game_id = game.gameId
          THEN [r EXCEPT !.home_score = 0, !.away_score = 0,
                         !.game_status = game.gameStatus, !.updated_at = t]
          ELSE r : r \in tbl}
    ELSE tbl \cup {[game_id |-> game.gameId, game_date |-> game.gameDate,
                    home_team_id |-> HomeTeamId, away_team_id |-> AwayTeamId,
                    home_score |-> 0, away_score |-> 0,
                    game_status |-> game.gameStatus,
                    winner_team_id |-> NoWinner, updated_at |-> t]}

\* get_games_to_update(date): the rows of the date that are not finished.
get_games_to_update(tbl, date) ==
    {r \in tbl : /\ r.game_date = date
                 /\ r.game_status \in {"scheduled", "live", "in-progress"}}

\* api_games_map: the last game of the list with each GAME_ID.
api_games_map(api_games, id) ==
    LET I == {i \in 1..Len(api_games) : api_games[i].GAME_ID = id}
    IN  IF I = {} THEN <<>> ELSE <<api_games[Max(I)]>>

\* The UPDATE of one row from the scoreboard's game.
pg_update(r, g, t) ==
    [r EXCEPT !.home_score = g.score[1], !.away_score = g.score[2],
              !.game_status = status_of_text(g.GAME_STATUS_TEXT),
              !.winner_team_id = winner_of(g.GAME_STATUS_TEXT, g.score[1],
                                           g.score[2], r),
              !.updated_at = t]

\* The table after update_game_scores(api_games, db_games).
update_game_scores(tbl, api_games, db_games, t) ==
    {IF r \in db_games /\ api_games_map(api_games, r.game_id) # <<>>
     THEN pg_update(r, api_games_map(api_games, r.game_id)[1], t)
     ELSE r : r \in tbl}

InitGames ==
    /\ AppIdle
    /\ WarmIdle
    /\ StoreIdle
    /\ ThreadsIdle
    /\ ClassIdle
    /\ PgIdle

pg_frame == <<app_vars, warm_vars, store_vars, thread_vars, class_vars>>

\* save_games_to_db with one game: the row is written, or the database
\* fails, which the function catches: it rolls back and returns 0.
save_games_to_db ==
    /\ pg_time < MaxPgOps
    /\ pg_time' = pg_time + 1
    /\ \E game \in CollectorGames :
         \/ /\ nba_games' = pg_upsert(nba_games, game, pg_time')
            /\ pg_call' = [op |-> "save_games_to_db", date |-> game.gameDate,
                           ret |-> 1]
         \/ /\ nba_games' = nba_games
            /\ pg_call' = [op |-> "save_games_to_db", date |-> game.gameDate,
                           ret |-> 0]
    /\ UNCHANGED pg_frame

\* update_scores_for_date(date); date "" is None, which stands for today.
update_scores_for_date ==
    /\ pg_time < MaxPgOps
    /\ pg_time' = pg_time + 1
    /\ \E d \in GameDates \cup {""}, api_games \in ApiGameLists :
         LET date == IF d = "" THEN DateStr[StoreToday] ELSE d
             db_games == get_games_to_update(nba_games, date)
         IN  /\ nba_games' =
                   IF db_games = {} \/ api_games = <<>> THEN nba_games
                   ELSE update_game_scores(nba_games, api_games, db_games,
                                           pg_time')
             /\ pg_call' =
                   [op |-> "update_scores_for_date", date |-> date,
                    ret |-> IF api_games = <<>> THEN 0
                            ELSE Cardinality(
                                   {r \in db_games :
                                      api_games_map(api_games, r.game_id) # <<>>})]
    /\ UNCHANGED pg_frame

NextGames ==
    \/ save_games_to_db
    \/ update_scores_for_date

SpecGames == InitGames /\ [][NextGames]_vars

\* A run of update_scores_for_date has just returned.
UpdateRun == pg_time' # pg_time /\ pg_call'.op = "update_scores_for_date"

StatusRank(st) ==
    IF st = "scheduled" THEN 1 ELSE IF st = "live" THEN 2 ELSE 3

\* C30: a run of update_scores_for_date never moves a game's status
\* backwards along scheduled, live, final, and leaves the row of a game
\* that is final as it is.
C30_StatusMovesForward ==
    [][UpdateRun =>
         \A r \in nba_games :
            /\ r.game_status = "final" => r \in nba_games'
            /\ r.game_status \in GameStatuses =>
                  \E r2 \in nba_games' :
                     /\ r2.game_id = r.game_id
                     /\ r2.game_status \in GameStatuses
                     /\ StatusRank(r2.game_status) >= StatusRank(r.game_status)
      ]_vars

\* A run of update_scores_for_date leaves every row that is final as it is.
C30_FinalRowsKept ==
    [][UpdateRun => \A r \in nba_games : r.game_status = "final" => r \in nba_games'
      ]_vars

====
